---- MODULE Spec2Model ----
(***************************************************************************)
(* A model of rc/models/drqa.py: the DrQA document reader.                 *)
(*                                                                         *)
(* DrQA.__init__ is modelled statement group by statement group (one       *)
(* action per group, in source order), DrQA.forward likewise, one          *)
(* instance per forward call.  Tensors are records <<width, value>>: the   *)
(* width is the size of the last axis, the value is the term that says     *)
(* how the tensor was computed from the inputs.  The sub-modules of        *)
(* src.layers are not part of drqa.py; they appear through their           *)
(* documented contracts (output width, masking, normalisation, dropout     *)
(* only in training mode).                                                 *)
(***************************************************************************)
EXTENDS Integers, Sequences, FiniteSets, TLC

(* ------------------------------ bounds --------------------------------- *)
\* w_embedding.embedding_dim of the table handed to the constructor.
EmbeddingDim == 3
\* config['hidden_size'].
HiddenSize == 2
\* config['num_layers'] ranges over 1..MaxLayers.
MaxLayers == 2
\* config['num_features'] ranges over 0..MaxFeatures.
MaxFeatures == 1
\* config['char_embed'] ranges over 0..MaxCharEmbed.
MaxCharEmbed == 1
\* Number of parameters of the word-embedding table.
NumWParams == 1
\* Number of optimizer steps taken after construction.
MaxUpdates == 2

WParams == 1..NumWParams

VARIABLES
  config,          \* self.config
  w_embedding,     \* self.w_embedding: requires_grad and weight of each parameter
  requires_grad0,  \* the requires_grad marking the table arrived with
  ipc,             \* position inside DrQA.__init__
  loc,             \* local variables of DrQA.__init__
  modules,         \* sub-modules assigned to self, by attribute name
  order,           \* attribute names of the sub-modules, in the order built
  raised,          \* exception raised by DrQA.__init__ ("" if none)
  model,           \* what the caller of DrQA(...) holds
  updates          \* optimizer steps taken so far

ctorVars == <<config, w_embedding, requires_grad0, ipc, loc, modules, order,
              raised, model, updates>>

\* Examples per batch, document length, question length, distinct words
\* per batch, largest exponentiated raw score, largest chunk target.
BatchSize == 2
DocLen == 2
QLen == 1
NumUnique == 2
MaxW == 2
MaxChunkTarget == 1

Calls == {1, 2}
Rows == 1..BatchSize
DocPos == 1..DocLen
QPos == 1..QLen

VARIABLES
  training,        \* self.training (and that of every sub-module)
  rng,             \* state of the random generator dropout masks are drawn from
  c_layer_lookup,  \* weight rows of the lookup table ex['c_layer_lookup']
  xWy,             \* exp of the bilinear form of each span scorer, per position
  ex,              \* the example handed to each forward call
  fwd,             \* local variables and position of each forward call
  out              \* the mapping each forward call returned

fwdVars == <<training, rng, c_layer_lookup, xWy, ex, fwd, out>>
vars == <<config, w_embedding, requires_grad0, ipc, loc, modules, order,
          raised, model, updates, training, rng, c_layer_lookup, xWy, ex,
          fwd, out>>

(* --------------------------- configuration ----------------------------- *)
\* DrQA._RNN_TYPES
RNN_TYPES == {"lstm", "gru", "rnn"}

QuestionMerges == {"avg", "self_attn"}

ModuleNames == {"char_layer", "qemb_match", "doc_linear", "q_linear", "doc_rnn",
                "question_rnn", "doc_self_attn", "self_attn", "start_attn",
                "end_attn"}

Absent == [built |-> FALSE]

\* The configurations with every flag free; the specifications below
\* restrict single fields.
AllConfigs ==
  [ char_embed        : 0..MaxCharEmbed,
    fix_embeddings    : BOOLEAN,
    use_qemb          : BOOLEAN,
    num_features      : 0..MaxFeatures,
    resize_rnn_input  : BOOLEAN,
    hidden_size       : {HiddenSize},
    num_layers        : 1..MaxLayers,
    concat_rnn_layers : BOOLEAN,
    rnn_type          : {"lstm", "xyz"},
    doc_self_attn     : BOOLEAN,
    question_merge    : {"avg", "self_attn", "bogus"},
    span_dependency   : BOOLEAN,
    word_dropout      : BOOLEAN,
    dropout_emb       : {0, 1},
    dropout_ff        : {0, 1},
    dropout_rnn       : {0, 1} ]

(* ----------------------------- __init__ -------------------------------- *)
\* line 17: input_w_dim
InputWDim(cfg) == EmbeddingDim + cfg.char_embed

\* FreezeEmbeddings with the loop skipped.
FreezeEmbeddings_Skipped(we, cfg) == we

\* lines 19-21: every parameter of the table loses requires_grad.
FreezeEmbeddings(we, cfg) ==
  IF cfg.fix_embeddings
  THEN [we EXCEPT !.requires_grad = [p \in WParams |-> FALSE]]
  ELSE we

\* DocInputSize without the manual features.
DocInputSize_NoFeatures(cfg, input_w_dim) ==
  IF cfg.use_qemb THEN input_w_dim + input_w_dim ELSE input_w_dim

\* lines 39-41: doc_input_size before the optional projection.
DocInputSize(cfg, input_w_dim) ==
  LET base == input_w_dim + cfg.num_features
  IN  IF cfg.use_qemb THEN base + input_w_dim ELSE base

\* lines 78-82: output size of either encoder.
EncoderHiddenSize(cfg) ==
  LET h == 2 * cfg.hidden_size
  IN  IF cfg.concat_rnn_layers THEN h * cfg.num_layers ELSE h

\* ValidQuestionMerge with the check left out.
ValidQuestionMerge_Any(qm) == TRUE

\* line 89: the supported merge policies.
ValidQuestionMerge(qm) == qm \in QuestionMerges

\* line 99: q_rep_size
QRepSize(cfg, doc_hidden_size, question_hidden_size) ==
  IF cfg.span_dependency THEN question_hidden_size + doc_hidden_size
  ELSE question_hidden_size

\* self.<name> = <module>
Assign(name, m) ==
  /\ modules' = [modules EXCEPT ![name] = m @@ [built |-> TRUE]]
  /\ order' = Append(order, name)

\* layers.StackedBRNN(...) as called at lines 50-61 and 64-75.
StackedBRNNArgs(cfg, input_size) ==
  [ input_size    |-> input_size,
    hidden_size   |-> cfg.hidden_size,
    num_layers    |-> cfg.num_layers,
    concat_layers |-> cfg.concat_rnn_layers,
    rnn_type      |-> cfg.rnn_type ]

\* An exception leaves __init__: the caller gets no object.
Raise(exc) ==
  /\ raised' = exc
  /\ ipc' = "done"
  /\ model' = "none"

\* lines 13-21
InitStore ==
  /\ ipc = "store"
  /\ loc' = [loc EXCEPT !.input_w_dim = InputWDim(config),
                        !.q_input_size = InputWDim(config)]
  /\ w_embedding' = FreezeEmbeddings(w_embedding, config)
  /\ ipc' = "char_layer"
  /\ UNCHANGED <<config, requires_grad0, modules, order, raised, model, updates>>
  /\ UNCHANGED fwdVars

\* lines 23-32
InitCharLayer ==
  /\ ipc = "char_layer"
  /\ IF config.char_embed # 0
     THEN Assign("char_layer", [input_size  |-> config.char_embed,
                                hidden_size |-> config.char_embed])
     ELSE UNCHANGED <<modules, order>>
  /\ ipc' = "qemb_match"
  /\ UNCHANGED <<config, w_embedding, requires_grad0, loc, raised, model, updates>>
  /\ UNCHANGED fwdVars

\* lines 34-36
InitQembMatch ==
  /\ ipc = "qemb_match"
  /\ IF config.use_qemb
     THEN Assign("qemb_match", [input_size |-> loc.input_w_dim])
     ELSE UNCHANGED <<modules, order>>
  /\ ipc' = "doc_input_size"
  /\ UNCHANGED <<config, w_embedding, requires_grad0, loc, raised, model, updates>>
  /\ UNCHANGED fwdVars

\* lines 38-41
InitDocInputSize ==
  /\ ipc = "doc_input_size"
  /\ loc' = [loc EXCEPT !.doc_input_size = DocInputSize(config, loc.input_w_dim)]
  /\ ipc' = "resize"
  /\ UNCHANGED <<config, w_embedding, requires_grad0, modules, order, raised,
                 model, updates>>
  /\ UNCHANGED fwdVars

\* lines 43-47
InitResize ==
  /\ ipc = "resize"
  /\ IF config.resize_rnn_input
     THEN /\ modules' = [modules EXCEPT
                !["doc_linear"] = [built |-> TRUE,
                                   in_features  |-> loc.doc_input_size,
                                   out_features |-> config.hidden_size],
                !["q_linear"]   = [built |-> TRUE,
                                   in_features  |-> loc.input_w_dim,
                                   out_features |-> config.hidden_size]]
          /\ order' = order \o <<"doc_linear", "q_linear">>
          /\ loc' = [loc EXCEPT !.doc_input_size = config.hidden_size,
                                !.q_input_size = config.hidden_size]
     ELSE UNCHANGED <<modules, order, loc>>
  /\ ipc' = "doc_rnn"
  /\ UNCHANGED <<config, w_embedding, requires_grad0, raised, model, updates>>
  /\ UNCHANGED fwdVars

\* lines 49-61; self._RNN_TYPES[config['rnn_type']] raises KeyError on an
\* unknown cell kind.
InitDocRnn ==
  /\ ipc = "doc_rnn"
  /\ IF config.rnn_type \in RNN_TYPES
     THEN /\ Assign("doc_rnn", StackedBRNNArgs(config, loc.doc_input_size))
          /\ ipc' = "question_rnn"
          /\ UNCHANGED <<raised, model>>
     ELSE /\ Raise("KeyError")
          /\ UNCHANGED <<modules, order>>
  /\ UNCHANGED <<config, w_embedding, requires_grad0, loc, updates>>
  /\ UNCHANGED fwdVars

\* lines 63-75
InitQuestionRnn ==
  /\ ipc = "question_rnn"
  /\ Assign("question_rnn", StackedBRNNArgs(config, loc.q_input_size))
  /\ ipc' = "hidden_sizes"
  /\ UNCHANGED <<config, w_embedding, requires_grad0, loc, raised, model, updates>>
  /\ UNCHANGED fwdVars

\* lines 77-82
InitHiddenSizes ==
  /\ ipc = "hidden_sizes"
  /\ loc' = [loc EXCEPT !.doc_hidden_size = EncoderHiddenSize(config),
                        !.question_hidden_size = EncoderHiddenSize(config)]
  /\ ipc' = "doc_self_attn"
  /\ UNCHANGED <<config, w_embedding, requires_grad0, modules, order, raised,
                 model, updates>>
  /\ UNCHANGED fwdVars

\* SelfAttnDocHiddenSize with the widening forgotten.
SelfAttnDocHiddenSize_Unchanged(doc_hidden_size, question_hidden_size) ==
  doc_hidden_size

\* line 86: doc_hidden_size after the self-attended copy is appended.
SelfAttnDocHiddenSize(doc_hidden_size, question_hidden_size) ==
  doc_hidden_size + question_hidden_size

\* lines 84-86
InitDocSelfAttn ==
  /\ ipc = "doc_self_attn"
  /\ IF config.doc_self_attn
     THEN /\ Assign("doc_self_attn", [input_size |-> loc.doc_hidden_size])
          /\ loc' = [loc EXCEPT !.doc_hidden_size =
                       SelfAttnDocHiddenSize(loc.doc_hidden_size,
                                             loc.question_hidden_size)]
     ELSE UNCHANGED <<modules, order, loc>>
  /\ ipc' = "question_merge"
  /\ UNCHANGED <<config, w_embedding, requires_grad0, raised, model, updates>>
  /\ UNCHANGED fwdVars

\* lines 88-92
InitQuestionMerge ==
  /\ ipc = "question_merge"
  /\ IF ~ValidQuestionMerge(config.question_merge)
     THEN /\ Raise("NotImplementedError")
          /\ UNCHANGED <<modules, order>>
     ELSE /\ IF config.question_merge = "self_attn"
             THEN Assign("self_attn", [input_size |-> loc.question_hidden_size])
             ELSE UNCHANGED <<modules, order>>
          /\ ipc' = "start_attn"
          /\ UNCHANGED <<raised, model>>
  /\ UNCHANGED <<config, w_embedding, requires_grad0, loc, updates>>
  /\ UNCHANGED fwdVars

\* lines 94-98
InitStartAttn ==
  /\ ipc = "start_attn"
  /\ Assign("start_attn", [x_size |-> loc.doc_hidden_size,
                           y_size |-> loc.question_hidden_size])
  /\ ipc' = "end_attn"
  /\ UNCHANGED <<config, w_embedding, requires_grad0, loc, raised, model, updates>>
  /\ UNCHANGED fwdVars

\* lines 99-103; __init__ returns and the caller holds the model.
InitEndAttn ==
  /\ ipc = "end_attn"
  /\ loc' = [loc EXCEPT !.q_rep_size =
               QRepSize(config, loc.doc_hidden_size, loc.question_hidden_size)]
  /\ Assign("end_attn", [x_size |-> loc.doc_hidden_size,
                         y_size |-> QRepSize(config, loc.doc_hidden_size,
                                             loc.question_hidden_size)])
  /\ ipc' = "done"
  /\ model' = "model"
  /\ UNCHANGED <<config, w_embedding, requires_grad0, raised, updates>>
  /\ UNCHANGED fwdVars

\* A parameter-update step of the training loop on the constructed model:
\* it changes the parameters that require gradients and no others.
UpdateStep ==
  /\ model = "model"
  /\ updates < MaxUpdates
  /\ updates' = updates + 1
  /\ w_embedding' = [w_embedding EXCEPT !.weight =
        [p \in WParams |-> IF w_embedding.requires_grad[p]
                           THEN w_embedding.weight[p] + 1
                           ELSE w_embedding.weight[p]]]
  /\ UNCHANGED <<config, requires_grad0, ipc, loc, modules, order, raised, model>>
  /\ UNCHANGED fwdVars

Construct ==
  \/ InitStore
  \/ InitCharLayer
  \/ InitQembMatch
  \/ InitDocInputSize
  \/ InitResize
  \/ InitDocRnn
  \/ InitQuestionRnn
  \/ InitHiddenSizes
  \/ InitDocSelfAttn
  \/ InitQuestionMerge
  \/ InitStartAttn
  \/ InitEndAttn

(* ------------------------------ tensors -------------------------------- *)
T(w, v) == [w |-> w, v |-> v]
NoTensor == T(0, <<"unset">>)

\* torch.cat([a, b], <last axis>)
Cat(a, b) == T(a.w + b.w, <<"cat", a.v, b.v>>)

RECURSIVE SumOver(_, _)
SumOver(f, S) ==
  IF S = {} THEN 0
  ELSE LET i == CHOOSE j \in S : TRUE
       IN  f[i] + SumOver(f, S \ {i})

(* --------------------- contracts of src.layers ------------------------- *)
\* layers.dropout(x, p, shared_axes, training): the identity unless a mask
\* is sampled; r is the generator state the mask is drawn from.
dropout(x, p, shared_axes, train, r) ==
  IF train /\ p > 0 THEN T(x.w, <<"dropout", x.v, shared_axes, r>>) ELSE x

\* Whether a dropout with rate p samples a mask.
Samples(p, train) == train /\ p > 0

\* layers.CharEmbeddingLayer.forward: one vector of width hidden_size per
\* distinct word (as in evaluation mode: its own dropout is left out).
CharEmbeddingLayer(m, c_emb) ==
  [u \in 1..NumUnique |-> <<"char_layer", c_emb[u]>>]

\* layers.SeqAttnMatch.forward(x, y, y_mask): for every position of x a
\* weighted combination of the rows of y.
SeqAttnMatch(name, x, y, y_mask) ==
  T(y.w, <<"seq_attn_match", name, x.v, y.v, y_mask>>)

\* layers.StackedBRNN.forward(x, x_mask): forward and backward hidden
\* states, of every layer when concat_layers; r is the generator state its
\* dropout draws from in training mode, -1 when it samples nothing.
StackedBRNN(name, m, x, x_mask, r) ==
  T(2 * m.hidden_size * (IF m.concat_layers THEN m.num_layers ELSE 1),
    <<"stacked_brnn", name, x.v, x_mask, r>>)

\* layers.uniform_weights(x, x_mask)
uniform_weights(x, x_mask) == <<"uniform_weights", x_mask>>

\* layers.LinearSeqAttn.forward(x, x_mask)
LinearSeqAttn(name, x, x_mask) == <<"linear_seq_attn", name, x.v, x_mask>>

\* layers.weighted_avg(x, weights)
weighted_avg(x, weights) == T(x.w, <<"weighted_avg", x.v, weights>>)

\* layers.BilinearSeqAttn.forward(x, y, x_mask): x_i^T W y, -inf at masked
\* positions, log-softmax over the positions.  The log-probabilities are
\* kept as the fractions exp_num[r][i] / exp_den[r] they exponentiate to;
\* raw[i] is exp(x_i^T W y).
BilinearSeqAttn(name, x, y, x_mask, raw) ==
  LET num == [r \in Rows |-> [i \in DocPos |-> IF x_mask[r][i] THEN 0 ELSE raw[i]]]
  IN  [ w       |-> DocLen,
        v       |-> <<"bilinear_seq_attn", name, x.v, y.v, x_mask>>,
        exp_num |-> num,
        exp_den |-> [r \in Rows |-> SumOver(num[r], DocPos)] ]

(* ------------------------------ forward -------------------------------- *)
NoFwd == [ pc |-> "off", xq_emb |-> NoTensor, xd_emb |-> NoTensor,
           xc_rep |-> <<>>, xqc_emb |-> NoTensor, xdc_emb |-> NoTensor,
           drnn_input |-> NoTensor, doc_hiddens |-> NoTensor,
           question_hiddens |-> NoTensor, question_hidden |-> NoTensor,
           start_scores |-> NoTensor, end_scores |-> NoTensor,
           trace |-> <<>> ]

NoOut == [returned |-> FALSE]

Goto(c, f, label) == fwd' = [fwd EXCEPT ![c] = [f EXCEPT !.pc = label]]

\* line 127: shared_axes
SharedAxes(cfg) == IF cfg.word_dropout THEN <<2>> ELSE <<>>

\* lines 124-125: self.w_embedding(ids)
WordEmbedding(ids) == T(EmbeddingDim, <<"w_embedding", ids, w_embedding.weight>>)

\* lines 128-129: the training argument of the embedding dropout.
EmbDropoutTraining(train) == train

\* lines 124-131
FwdEmbed(c) ==
  LET f  == fwd[c]
      e  == ex[c]
      tr == EmbDropoutTraining(training)
      s  == Samples(config.dropout_emb, tr)
      r2 == IF s THEN rng + 1 ELSE rng
      q  == dropout(WordEmbedding(e.xq), config.dropout_emb, SharedAxes(config), tr, rng)
      d  == dropout(WordEmbedding(e.xd), config.dropout_emb, SharedAxes(config), tr, r2)
  IN  /\ f.pc = "embed"
      /\ model = "model"
      /\ fwd' = [fwd EXCEPT ![c] =
                   [f EXCEPT !.xq_emb = q, !.xd_emb = d,
                             !.pc = IF config.char_embed > 0
                                    THEN "char_encode" ELSE "qemb"]]
      /\ rng' = IF s THEN rng + 2 ELSE rng
      /\ UNCHANGED <<training, c_layer_lookup, xWy, ex, out>>
      /\ UNCHANGED ctorVars

\* line 135
FwdCharEncode(c) ==
  LET f == fwd[c]
  IN  /\ f.pc = "char_encode"
      /\ fwd' = [fwd EXCEPT ![c] =
                   [f EXCEPT !.xc_rep = CharEmbeddingLayer(modules["char_layer"],
                                                           ex[c].c_emb),
                             !.pc = "char_write"]]
      /\ UNCHANGED <<training, rng, c_layer_lookup, xWy, ex, out>>
      /\ UNCHANGED ctorVars

\* line 137: rows 1.. of the table's weight are overwritten in place.
WriteLookup(weight, xc_rep) ==
  [u \in 0..NumUnique |-> IF u = 0 THEN weight[0] ELSE xc_rep[u]]

\* line 137
FwdCharWrite(c) ==
  LET f == fwd[c]
  IN  /\ f.pc = "char_write"
      /\ c_layer_lookup' = WriteLookup(c_layer_lookup, f.xc_rep)
      /\ Goto(c, f, "char_lookup_q")
      /\ UNCHANGED <<training, rng, xWy, ex, out>>
      /\ UNCHANGED ctorVars

\* lines 138-139: ex['c_layer_lookup'](indices)
Lookup(weight, idx, positions) ==
  T(config.char_embed,
    <<"lookup", [r \in Rows |-> [i \in positions |-> weight[idx[r][i]]]]>>)

\* line 138
FwdCharLookupQ(c) ==
  LET f == fwd[c]
  IN  /\ f.pc = "char_lookup_q"
      /\ fwd' = [fwd EXCEPT ![c] =
                   [f EXCEPT !.xqc_emb = Lookup(c_layer_lookup, ex[c].xqc, QPos),
                             !.pc = "char_lookup_d"]]
      /\ UNCHANGED <<training, rng, c_layer_lookup, xWy, ex, out>>
      /\ UNCHANGED ctorVars

\* line 139
FwdCharLookupD(c) ==
  LET f == fwd[c]
  IN  /\ f.pc = "char_lookup_d"
      /\ fwd' = [fwd EXCEPT ![c] =
                   [f EXCEPT !.xdc_emb = Lookup(c_layer_lookup, ex[c].xdc, DocPos),
                             !.pc = "char_cat"]]
      /\ UNCHANGED <<training, rng, c_layer_lookup, xWy, ex, out>>
      /\ UNCHANGED ctorVars

\* lines 140-141
FwdCharCat(c) ==
  LET f == fwd[c]
  IN  /\ f.pc = "char_cat"
      /\ fwd' = [fwd EXCEPT ![c] =
                   [f EXCEPT !.xq_emb = Cat(f.xq_emb, f.xqc_emb),
                             !.xd_emb = Cat(f.xd_emb, f.xdc_emb),
                             !.pc = "qemb"]]
      /\ UNCHANGED <<training, rng, c_layer_lookup, xWy, ex, out>>
      /\ UNCHANGED ctorVars

\* lines 144-148
FwdQemb(c) ==
  LET f == fwd[c]
      xq_weighted_emb == SeqAttnMatch("qemb_match", f.xd_emb, f.xq_emb, ex[c].xq_mask)
  IN  /\ f.pc = "qemb"
      /\ fwd' = [fwd EXCEPT ![c] =
                   [f EXCEPT !.drnn_input = IF config.use_qemb
                                            THEN Cat(f.xd_emb, xq_weighted_emb)
                                            ELSE f.xd_emb,
                             !.pc = "features"]]
      /\ UNCHANGED <<training, rng, c_layer_lookup, xWy, ex, out>>
      /\ UNCHANGED ctorVars

\* lines 150-151
FwdFeatures(c) ==
  LET f == fwd[c]
  IN  /\ f.pc = "features"
      /\ fwd' = [fwd EXCEPT ![c] =
                   [f EXCEPT !.drnn_input = IF config.num_features > 0
                                            THEN Cat(f.drnn_input, ex[c].xd_f)
                                            ELSE f.drnn_input,
                             !.pc = "resize"]]
      /\ UNCHANGED <<training, rng, c_layer_lookup, xWy, ex, out>>
      /\ UNCHANGED ctorVars

\* lines 155-156: F.relu(linear(x))
ReluLinear(name, m, x) == T(m.out_features, <<"relu_linear", name, x.v>>)

\* FFDropoutTraining with the argument left to F.dropout's default.
FFDropoutTraining_Default(train) == TRUE

\* lines 158-159: the training argument of the projection dropout.
FFDropoutTraining(train) == train

\* lines 157-159: F.dropout(x, training=...) with the default rate; it
\* samples a mask whenever its training argument is true.
FFDropout(x, cfg, train, r) ==
  IF cfg.dropout_ff > 0 /\ train THEN T(x.w, <<"F.dropout", x.v, r>>) ELSE x

\* lines 154-159
FwdResize(c) ==
  LET f  == fwd[c]
      tr == FFDropoutTraining(training)
      s  == config.dropout_ff > 0 /\ tr
      d  == FFDropout(ReluLinear("doc_linear", modules["doc_linear"], f.drnn_input),
                      config, tr, rng)
      q  == FFDropout(ReluLinear("q_linear", modules["q_linear"], f.xq_emb),
                      config, tr, rng + 1)
  IN  /\ f.pc = "resize"
      /\ IF config.resize_rnn_input
         THEN /\ fwd' = [fwd EXCEPT ![c] =
                           [f EXCEPT !.drnn_input = d, !.xq_emb = q,
                                     !.pc = "doc_rnn"]]
              /\ rng' = IF s THEN rng + 2 ELSE rng
         ELSE /\ Goto(c, f, "doc_rnn")
              /\ UNCHANGED rng
      /\ UNCHANGED <<training, c_layer_lookup, xWy, ex, out>>
      /\ UNCHANGED ctorVars

\* The generator state a sub-module's own dropout draws from.
ModuleDraw(cfg, train) == IF Samples(cfg.dropout_rnn, train) THEN rng ELSE -1

\* line 162
FwdDocRnn(c) ==
  LET f == fwd[c]
  IN  /\ f.pc = "doc_rnn"
      /\ fwd' = [fwd EXCEPT ![c] =
                   [f EXCEPT !.doc_hiddens =
                                StackedBRNN("doc_rnn", modules["doc_rnn"],
                                            f.drnn_input, ex[c].xd_mask,
                                            ModuleDraw(config, training)),
                             !.pc = "doc_self_attn"]]
      /\ rng' = IF Samples(config.dropout_rnn, training) THEN rng + 1 ELSE rng
      /\ UNCHANGED <<training, c_layer_lookup, xWy, ex, out>>
      /\ UNCHANGED ctorVars

\* lines 165-167
FwdDocSelfAttn(c) ==
  LET f == fwd[c]
      xd_weighted_emb == SeqAttnMatch("doc_self_attn", f.doc_hiddens,
                                      f.doc_hiddens, ex[c].xd_mask)
  IN  /\ f.pc = "doc_self_attn"
      /\ fwd' = [fwd EXCEPT ![c] =
                   [f EXCEPT !.doc_hiddens = IF config.doc_self_attn
                                             THEN Cat(f.doc_hiddens, xd_weighted_emb)
                                             ELSE f.doc_hiddens,
                             !.pc = "question"]]
      /\ UNCHANGED <<training, rng, c_layer_lookup, xWy, ex, out>>
      /\ UNCHANGED ctorVars

\* lines 171-174: q_merge_weights
QMergeWeights(cfg, question_hiddens, xq_mask) ==
  IF cfg.question_merge = "avg"
  THEN uniform_weights(question_hiddens, xq_mask)
  ELSE LinearSeqAttn("self_attn", question_hiddens, xq_mask)

\* lines 170-175
FwdQuestion(c) ==
  LET f == fwd[c]
      question_hiddens == StackedBRNN("question_rnn", modules["question_rnn"],
                                      f.xq_emb, ex[c].xq_mask,
                                      ModuleDraw(config, training))
  IN  /\ f.pc = "question"
      /\ fwd' = [fwd EXCEPT ![c] =
                   [f EXCEPT !.question_hiddens = question_hiddens,
                             !.question_hidden =
                                weighted_avg(question_hiddens,
                                             QMergeWeights(config, question_hiddens,
                                                           ex[c].xq_mask)),
                             !.pc = "start"]]
      /\ rng' = IF Samples(config.dropout_rnn, training) THEN rng + 1 ELSE rng
      /\ UNCHANGED <<training, c_layer_lookup, xWy, ex, out>>
      /\ UNCHANGED ctorVars

\* What a span scorer was called with.
ScorerCall(name, x, y, x_mask) == [scorer |-> name, x |-> x, y |-> y, x_mask |-> x_mask]

\* StartMask with no position masked.
StartMask_None(e) == [r \in Rows |-> [i \in DocPos |-> FALSE]]

\* line 178: the mask handed to the start scorer.
StartMask(e) == e.xd_mask

\* line 178
FwdStart(c) ==
  LET f == fwd[c]
      m == StartMask(ex[c])
  IN  /\ f.pc = "start"
      /\ fwd' = [fwd EXCEPT ![c] =
                   [f EXCEPT !.start_scores =
                                BilinearSeqAttn("start_attn", f.doc_hiddens,
                                                f.question_hidden, m,
                                                xWy["start_attn"]),
                             !.trace = Append(f.trace,
                                ScorerCall("start_attn", f.doc_hiddens,
                                           f.question_hidden, m)),
                             !.pc = "span_dep"]]
      /\ UNCHANGED <<training, rng, c_layer_lookup, xWy, ex, out>>
      /\ UNCHANGED ctorVars

\* line 180: (doc_hiddens * start_scores.exp().unsqueeze(2)).sum(1)
ExpectedDoc(doc_hiddens, start_scores) ==
  T(doc_hiddens.w, <<"weighted_sum", doc_hiddens.v, start_scores.exp_num,
                     start_scores.exp_den>>)

\* SpanDependentQuestion with the flag ignored.
SpanDependentQuestion_Always(cfg, question_hidden, doc_hiddens, start_scores) ==
  Cat(question_hidden, ExpectedDoc(doc_hiddens, start_scores))

\* lines 179-180: the question vector the end scorer will get.
SpanDependentQuestion(cfg, question_hidden, doc_hiddens, start_scores) ==
  IF cfg.span_dependency
  THEN Cat(question_hidden, ExpectedDoc(doc_hiddens, start_scores))
  ELSE question_hidden

\* lines 179-180
FwdSpanDep(c) ==
  LET f == fwd[c]
  IN  /\ f.pc = "span_dep"
      /\ fwd' = [fwd EXCEPT ![c] =
                   [f EXCEPT !.question_hidden =
                                SpanDependentQuestion(config, f.question_hidden,
                                                      f.doc_hiddens, f.start_scores),
                             !.pc = "end"]]
      /\ UNCHANGED <<training, rng, c_layer_lookup, xWy, ex, out>>
      /\ UNCHANGED ctorVars

\* line 181
FwdEnd(c) ==
  LET f == fwd[c]
  IN  /\ f.pc = "end"
      /\ fwd' = [fwd EXCEPT ![c] =
                   [f EXCEPT !.end_scores =
                                BilinearSeqAttn("end_attn", f.doc_hiddens,
                                                f.question_hidden, ex[c].xd_mask,
                                                xWy["end_attn"]),
                             !.trace = Append(f.trace,
                                ScorerCall("end_attn", f.doc_hiddens,
                                           f.question_hidden, ex[c].xd_mask)),
                             !.pc = "return"]]
      /\ UNCHANGED <<training, rng, c_layer_lookup, xWy, ex, out>>
      /\ UNCHANGED ctorVars

\* ChunkAcc counting the positive chunk targets only.
ChunkAcc_Positive(chunk_targets) ==
  <<Cardinality({r \in DOMAIN chunk_targets : chunk_targets[r] > 0}),
    Cardinality(DOMAIN chunk_targets)>>

\* line 183: (chunk_targets >= 0).float().sum() / len(chunk_targets), kept
\* as the fraction <<numerator, denominator>>.
ChunkAcc(chunk_targets) ==
  <<Cardinality({r \in DOMAIN chunk_targets : chunk_targets[r] >= 0}),
    Cardinality(DOMAIN chunk_targets)>>

\* lines 183-189
FwdReturn(c) ==
  LET f == fwd[c]
      chunk_acc == ChunkAcc(ex[c].chunk_targets)
  IN  /\ f.pc = "return"
      /\ out' = [out EXCEPT ![c] = [ returned         |-> TRUE,
                                     score_s          |-> f.start_scores,
                                     score_e          |-> f.end_scores,
                                     targets          |-> ex[c].targets,
                                     chunk_target_acc |-> chunk_acc,
                                     chunk_any_acc    |-> chunk_acc ]]
      /\ Goto(c, f, "done")
      /\ UNCHANGED <<training, rng, c_layer_lookup, xWy, ex>>
      /\ UNCHANGED ctorVars

Forward(c) ==
  \/ FwdEmbed(c)
  \/ FwdCharEncode(c)
  \/ FwdCharWrite(c)
  \/ FwdCharLookupQ(c)
  \/ FwdCharLookupD(c)
  \/ FwdCharCat(c)
  \/ FwdQemb(c)
  \/ FwdFeatures(c)
  \/ FwdResize(c)
  \/ FwdDocRnn(c)
  \/ FwdDocSelfAttn(c)
  \/ FwdQuestion(c)
  \/ FwdStart(c)
  \/ FwdSpanDep(c)
  \/ FwdEnd(c)
  \/ FwdReturn(c)

NoLoc == [input_w_dim |-> 0, q_input_size |-> 0, doc_input_size |-> 0,
          doc_hidden_size |-> 0, question_hidden_size |-> 0, q_rep_size |-> 0]

\* DrQA(config, w_embedding, c_embedding) is about to run, for a
\* configuration of Cfgs and a table whose marking is one of Grads.
InitCtor(Cfgs, Grads) ==
  /\ config \in Cfgs
  /\ requires_grad0 \in Grads
  /\ w_embedding = [requires_grad |-> requires_grad0,
                    weight |-> [p \in WParams |-> 0]]
  /\ ipc = "store"
  /\ loc = NoLoc
  /\ modules = [n \in ModuleNames |-> Absent]
  /\ order = <<>>
  /\ raised = ""
  /\ model = "none"
  /\ updates = 0

\* No forward call is made.
InitNoForward ==
  /\ training = FALSE
  /\ rng = 0
  /\ c_layer_lookup = [u \in 0..NumUnique |-> <<"zero">>]
  /\ xWy = [n \in {"start_attn", "end_attn"} |-> [i \in DocPos |-> 1]]
  /\ ex = [c \in Calls |-> <<>>]
  /\ fwd = [c \in Calls |-> NoFwd]
  /\ out = [c \in Calls |-> NoOut]

\* Construction alone: the dropout rates play no part in it.
CtorConfigs ==
  {cfg \in AllConfigs : /\ ~cfg.word_dropout
                        /\ cfg.dropout_emb = 0
                        /\ cfg.dropout_ff = 0
                        /\ cfg.dropout_rnn = 0}

Init == InitCtor(CtorConfigs, [WParams -> BOOLEAN]) /\ InitNoForward

Next == Construct \/ UpdateStep

Spec == Init /\ [][Next]_vars

(* ------------------------- forward: the inputs ------------------------- *)
\* Padding masks (TRUE marks padding) of rows ordered longest first, the
\* first row unpadded; every row has at least one token.
Lengths ==
  {l \in [Rows -> DocPos] :
      /\ l[1] = DocLen
      /\ \A r \in Rows : r > 1 => l[r] <= l[r - 1]}

PaddedMasks == {[r \in Rows |-> [i \in DocPos |-> i > l[r]]] : l \in Lengths}

NoPadding == [r \in Rows |-> [i \in DocPos |-> FALSE]]

\* A well-formed batch for configuration cfg.  id stands for the token ids;
\* words[u] is the u-th distinct word of the batch; every unpadded token
\* points at the lookup row of its word, every padded one at row 0.
Example(cfg, id, xd_mask, words, targets, chunk_targets) ==
  [ xq            |-> <<"xq", id>>,
    xd            |-> <<"xd", id>>,
    xq_mask       |-> [r \in Rows |-> [i \in QPos |-> FALSE]],
    xd_mask       |-> xd_mask,
    xd_f          |-> T(cfg.num_features, <<"xd_f", id>>),
    targets       |-> targets,
    chunk_targets |-> chunk_targets,
    c_emb         |-> words,
    xqc           |-> [r \in Rows |-> [i \in QPos |-> ((r + i) % NumUnique) + 1]],
    xdc           |-> [r \in Rows |-> [i \in DocPos |->
                         IF xd_mask[r][i] THEN 0 ELSE ((r + i) % NumUnique) + 1]] ]

Words1 == [u \in 1..NumUnique |-> u]
Words2 == [u \in 1..NumUnique |-> NumUnique + u]
Targets0 == [r \in Rows |-> 1]
Raw1 == [i \in DocPos |-> 1]
Ramp == [i \in DocPos |-> 1 + (i % MaxW)]

\* Configurations a model can be built from, dropout switched off.
ValidConfigs ==
  {cfg \in CtorConfigs : /\ cfg.rnn_type \in RNN_TYPES
                         /\ cfg.question_merge \in QuestionMerges
                         /\ ~cfg.fix_embeddings}

\* The part of the state forward calls work on: the calls of Active are
\* about to start with the examples exs.
InitForward(Active, exs, startRaws, endRaws) ==
  /\ rng = 0
  /\ c_layer_lookup = [u \in 0..NumUnique |-> <<"zero">>]
  /\ \E a \in startRaws, b \in endRaws :
        xWy = [n \in {"start_attn", "end_attn"} |->
                 IF n = "start_attn" THEN a ELSE b]
  /\ ex = exs
  /\ fwd = [c \in Calls |-> IF c \in Active THEN [NoFwd EXCEPT !.pc = "embed"]
                            ELSE NoFwd]
  /\ out = [c \in Calls |-> NoOut]

Trainable == {[p \in WParams |-> TRUE]}

NextForward == Construct \/ \E c \in Calls : Forward(c)

\* One forward call in evaluation mode, every architecture.
InitWidths ==
  /\ InitCtor(ValidConfigs, Trainable)
  /\ training = FALSE
  /\ InitForward({1}, [c \in Calls |->
        Example(config, 1, NoPadding, Words1, Targets0, [r \in Rows |-> 0])],
        {Raw1}, {Raw1})

SpecWidths == InitWidths /\ [][NextForward]_vars

\* One forward call, every mask, every raw score of the start scorer and
\* two raw scores (flat, uneven) of the end scorer.
ScoreConfigs ==
  {cfg \in ValidConfigs : /\ cfg.num_layers = 1
                          /\ cfg.num_features = 0
                          /\ ~cfg.use_qemb
                          /\ ~cfg.resize_rnn_input
                          /\ ~cfg.concat_rnn_layers
                          /\ cfg.question_merge = "avg"
                          /\ cfg.rnn_type = "lstm"}

InitScores ==
  /\ InitCtor(ScoreConfigs, Trainable)
  /\ training = FALSE
  /\ \E m \in PaddedMasks :
       InitForward({1}, [c \in Calls |->
          Example(config, 1, m, Words1, Targets0, [r \in Rows |-> 0])],
          [DocPos -> 1..MaxW], {Raw1, Ramp})

SpecScores == InitScores /\ [][NextForward]_vars

\* One forward call, every gold target and every chunk target.
InitOutput ==
  /\ InitCtor({cfg \in ScoreConfigs : ~cfg.doc_self_attn}, Trainable)
  /\ training = FALSE
  /\ \E t \in [Rows -> {1, DocLen}], ct \in [Rows -> -1..MaxChunkTarget] :
       InitForward({1}, [c \in Calls |->
          Example(config, 1, NoPadding, Words1, t, ct)], {Raw1}, {Ramp})

SpecOutput == InitOutput /\ [][NextForward]_vars

\* Two forward calls on one model, interleaved statement by statement,
\* sharing the lookup table ex['c_layer_lookup']; the second call gets the
\* first call's example or one with other words.
CallConfigs ==
  {cfg \in AllConfigs : /\ cfg.num_layers = 1
                        /\ cfg.num_features = 0
                        /\ ~cfg.use_qemb
                        /\ ~cfg.concat_rnn_layers
                        /\ ~cfg.doc_self_attn
                        /\ ~cfg.span_dependency
                        /\ ~cfg.fix_embeddings
                        /\ ~cfg.word_dropout
                        /\ cfg.question_merge = "avg"
                        /\ cfg.rnn_type = "lstm"}

InitCalls ==
  /\ InitCtor(CallConfigs, Trainable)
  /\ training \in BOOLEAN
  /\ \E w \in {Words1, Words2} :
       InitForward(Calls, [c \in Calls |->
          Example(config, 1, NoPadding, IF c = 1 THEN Words1 ELSE w, Targets0,
                  [r \in Rows |-> 0])], {Raw1}, {Ramp})

SpecCalls == InitCalls /\ [][NextForward]_vars

(* ------------------------------ claims --------------------------------- *)
\* C1: a question_merge outside {'avg', 'self_attn'} never yields a model:
\* the caller holds nothing at any point, __init__ ends with an exception,
\* and with a supported rnn_type that exception is the NotImplementedError
\* of line 90.
C1_InvalidMergeRaises ==
  config.question_merge \notin {"avg", "self_attn"} =>
    /\ model = "none"
    /\ ipc = "done" => raised \in {"NotImplementedError", "KeyError"}
    /\ (ipc = "done" /\ config.rnn_type \in RNN_TYPES) =>
          raised = "NotImplementedError"

C1_Witness ==
  /\ config.question_merge = "bogus"
  /\ ipc = "done"
  /\ raised = "NotImplementedError"
  /\ config.use_qemb /\ config.doc_self_attn /\ config.span_dependency

\* C2: when the NotImplementedError for an unsupported question_merge is
\* raised, no sub-module that owns weights has been built.
C2_RaisedBeforeAnyWeight ==
  raised = "NotImplementedError" => order = <<>>

\* C6: with fix_embeddings every parameter of the word-embedding table is
\* non-trainable from the freeze on, the table keeps all its parameters and
\* update steps leave their weights as they were; without fix_embeddings
\* the constructor leaves the requires_grad marking as it arrived.
C6_FixEmbeddings ==
  /\ (config.fix_embeddings /\ ipc # "store") =>
        /\ DOMAIN w_embedding.weight = WParams
        /\ \A p \in WParams : /\ ~w_embedding.requires_grad[p]
                              /\ w_embedding.weight[p] = 0
  /\ ~config.fix_embeddings => w_embedding.requires_grad = requires_grad0

C6_Witness ==
  /\ config.fix_embeddings
  /\ model = "model"
  /\ updates >= 1
  /\ \E p \in WParams : requires_grad0[p]

\* C8: the document encoder is built with input width
\* E + (E if use_qemb) + num_features and the question encoder with E,
\* where E = embedding_dim + char_embed; with resize_rnn_input both are
\* hidden_size and the two projectors take those widths as input.
C8_EncoderInputWidths ==
  LET E == EmbeddingDim + config.char_embed
      D == E + (IF config.use_qemb THEN E ELSE 0) + config.num_features
  IN  /\ modules["doc_rnn"].built =>
            modules["doc_rnn"].input_size =
               IF config.resize_rnn_input THEN config.hidden_size ELSE D
      /\ modules["question_rnn"].built =>
            modules["question_rnn"].input_size =
               IF config.resize_rnn_input THEN config.hidden_size ELSE E
      /\ modules["doc_linear"].built => modules["doc_linear"].in_features = D
      /\ modules["q_linear"].built => modules["q_linear"].in_features = E
      /\ (modules["doc_rnn"].built /\ config.resize_rnn_input) =>
            modules["doc_linear"].built /\ modules["q_linear"].built
      /\ modules["doc_linear"].built => config.resize_rnn_input

C8_Witness ==
  /\ model = "model"
  /\ config.use_qemb
  /\ config.num_features > 0
  /\ config.char_embed > 0
  /\ ~config.resize_rnn_input
  /\ modules["doc_rnn"].input_size = 2 * (EmbeddingDim + config.char_embed)
                                       + config.num_features

\* C9: every sub-module is handed a tensor of the width it was built for:
\* the matcher, the projectors, both encoders, the document self-attention,
\* the question self-attention and both span scorers (document side and
\* question side).
C9_WidthsAgree ==
  \A c \in Calls :
    LET f == fwd[c]
    IN  /\ (f.pc = "qemb" /\ config.use_qemb) =>
              /\ f.xd_emb.w = modules["qemb_match"].input_size
              /\ f.xq_emb.w = modules["qemb_match"].input_size
        /\ (f.pc = "resize" /\ config.resize_rnn_input) =>
              /\ f.drnn_input.w = modules["doc_linear"].in_features
              /\ f.xq_emb.w = modules["q_linear"].in_features
        /\ f.pc = "doc_rnn" => f.drnn_input.w = modules["doc_rnn"].input_size
        /\ (f.pc = "doc_self_attn" /\ config.doc_self_attn) =>
              f.doc_hiddens.w = modules["doc_self_attn"].input_size
        /\ f.pc = "question" =>
              f.xq_emb.w = modules["question_rnn"].input_size
        /\ (f.pc = "start" /\ config.question_merge = "self_attn") =>
              f.question_hiddens.w = modules["self_attn"].input_size
        /\ f.pc = "start" =>
              /\ f.doc_hiddens.w = modules["start_attn"].x_size
              /\ f.question_hidden.w = modules["start_attn"].y_size
        /\ f.pc = "end" =>
              /\ f.doc_hiddens.w = modules["end_attn"].x_size
              /\ f.question_hidden.w = modules["end_attn"].y_size

C9_Witness ==
  /\ fwd[1].pc = "end"
  /\ config.doc_self_attn /\ config.span_dependency /\ config.use_qemb
  /\ config.concat_rnn_layers /\ config.num_layers > 1
  /\ config.num_features > 0 /\ config.char_embed > 0
  /\ fwd[1].question_hidden.w = 3 * fwd[1].question_hiddens.w

\* The positions of row r that are not padding.
Valid(e, r) == {i \in DocPos : ~e.xd_mask[r][i]}

\* scores is a log-probability distribution over the valid positions of
\* every row of e.
IsLogDistribution(scores, e) ==
  \A r \in Rows :
    /\ scores.exp_den[r] > 0
    /\ SumOver(scores.exp_num[r], Valid(e, r)) = scores.exp_den[r]
    /\ \A i \in DocPos \ Valid(e, r) : scores.exp_num[r][i] = 0

\* C5: for every row of the batch the returned start scores, and the
\* returned end scores, exponentiate to mass 1 on the valid document
\* positions and mass 0 on every padded one.
C5_ScoresAreLogDistributions ==
  \A c \in Calls :
    out[c].returned =>
      /\ IsLogDistribution(out[c].score_s, ex[c])
      /\ IsLogDistribution(out[c].score_e, ex[c])

C5_Witness ==
  /\ out[1].returned
  /\ config.span_dependency
  /\ \E r \in Rows : Valid(ex[1], r) # DocPos
  /\ \E r \in Rows : out[1].score_s.exp_den[r] > Cardinality(Valid(ex[1], r))

\* C10: the start scorer is called first, with the question summary as
\* merged; the end scorer is called second with the same document
\* representation and mask and, with span_dependency, the summary
\* concatenated with the document rows weighted by exp of this call's
\* start scores, otherwise the very summary the start scorer got.
C10_EndAfterStart ==
  \A c \in Calls :
    LET f  == fwd[c]
        tr == f.trace
    IN  /\ Len(tr) <= 2
        /\ f.pc \in {"span_dep", "end"} <=> Len(tr) = 1
        /\ f.pc \in {"return", "done"} <=> Len(tr) = 2
        /\ Len(tr) >= 1 =>
              /\ tr[1].scorer = "start_attn"
              /\ tr[1].y = weighted_avg(f.question_hiddens,
                                        QMergeWeights(config, f.question_hiddens,
                                                      ex[c].xq_mask))
              /\ f.start_scores.v =
                    <<"bilinear_seq_attn", "start_attn", tr[1].x.v, tr[1].y.v,
                      ex[c].xd_mask>>
        /\ Len(tr) = 2 =>
              /\ tr[2].scorer = "end_attn"
              /\ tr[2].x = tr[1].x
              /\ tr[2].x_mask = tr[1].x_mask
              /\ tr[2].x_mask = ex[c].xd_mask
              /\ tr[2].y =
                    IF config.span_dependency
                    THEN [ w |-> tr[1].y.w + tr[1].x.w,
                           v |-> <<"cat", tr[1].y.v,
                                   <<"weighted_sum", tr[1].x.v,
                                     f.start_scores.exp_num,
                                     f.start_scores.exp_den>>>> ]
                    ELSE tr[1].y

C10_Witness ==
  /\ fwd[1].pc = "done"
  /\ config.span_dependency
  /\ Len(fwd[1].trace) = 2
  /\ fwd[1].trace[2].y.w > fwd[1].trace[1].y.w
  /\ \E r \in Rows : Valid(ex[1], r) # DocPos
  /\ xWy["start_attn"] # Raw1

\* C7: the returned mapping carries the example's targets unchanged and,
\* under both statistic fields, the number of non-negative chunk targets
\* over the batch size.
C7_OutputPackaging ==
  \A c \in Calls :
    out[c].returned =>
      /\ out[c].targets = ex[c].targets
      /\ out[c].chunk_target_acc =
            <<Cardinality({r \in Rows : ex[c].chunk_targets[r] >= 0}), BatchSize>>
      /\ out[c].chunk_any_acc = out[c].chunk_target_acc

C7_Witness ==
  /\ out[1].returned
  /\ \E r \in Rows : ex[1].chunk_targets[r] = -1
  /\ \E r \in Rows : ex[1].chunk_targets[r] = 0
  /\ out[1].chunk_target_acc[1] < BatchSize

\* C4: in evaluation mode two forward calls with the same example return
\* the same mapping, whatever the dropout rates.
C4_EvalDeterministic ==
  (/\ ~training
   /\ ex[1] = ex[2]
   /\ out[1].returned
   /\ out[2].returned) => out[1] = out[2]

C4_Witness ==
  /\ ~training
  /\ ex[1] = ex[2]
  /\ out[1].returned /\ out[2].returned
  /\ config.dropout_emb > 0 /\ config.dropout_ff > 0 /\ config.dropout_rnn > 0
  /\ config.resize_rnn_input /\ config.char_embed > 0

\* The lookup rows call c computed for its own distinct words.
OwnLookup(c) ==
  [u \in 0..NumUnique |-> IF u = 0 THEN <<"zero">> ELSE fwd[c].xc_rep[u]]

\* C3: whatever the interleaving of two forward calls sharing the lookup
\* table, the character embeddings a call reads for its tokens are the
\* encodings of its own distinct words.
C3_OwnCharEmbeddings ==
  \A c \in Calls :
    /\ fwd[c].pc \in {"char_lookup_d", "char_cat"} =>
          fwd[c].xqc_emb = Lookup(OwnLookup(c), ex[c].xqc, QPos)
    /\ fwd[c].pc = "char_cat" =>
          fwd[c].xdc_emb = Lookup(OwnLookup(c), ex[c].xdc, DocPos)

====
